---- MODULE Spec2Model ----
(***************************************************************************)
(* A model of src/linux/batocera/dedupe_roms.py: the ROM collection on     *)
(* disk, the scan that groups files by normalized title, the resolution of *)
(* every group of duplicates and the relocation of the losers.             *)
(*                                                                         *)
(* The program's string functions work on a string as the sequence of its  *)
(* characters (one-character strings), so that they are computed and not   *)
(* assumed.  The state names a file by its name as one string; Spelling    *)
(* gives the characters of every file name of the model.  A directory name *)
(* is only ever compared as a whole and stays a string.                    *)
(***************************************************************************)
EXTENDS Integers, Sequences, FiniteSets, TLC

(***************************************************************************)
(* Bounds of the model.                                                    *)
(***************************************************************************)
\* The most files the collection holds when the first run starts.
MaxFiles == 3
\* The number of consecutive runs of the script that are followed.
MaxRuns == 2
\* The most tags a file name handed to the functions of one name carries.
MaxTags == 3

(***************************************************************************)
(* Python string functions.                                                *)
(***************************************************************************)
UpperChars == <<"A", "B", "C", "D", "E", "F", "G", "H", "I", "J", "K", "L", "M",
                "N", "O", "P", "Q", "R", "S", "T", "U", "V", "W", "X", "Y", "Z">>

LowerChars == <<"a", "b", "c", "d", "e", "f", "g", "h", "i", "j", "k", "l", "m",
                "n", "o", "p", "q", "r", "s", "t", "u", "v", "w", "x", "y", "z">>

DigitChars == <<"0", "1", "2", "3", "4", "5", "6", "7", "8", "9">>

Range(s) == {s[i] : i \in 1..Len(s)}

lower_char(c) ==
    IF \E i \in 1..Len(UpperChars) : UpperChars[i] = c
    THEN LowerChars[CHOOSE i \in 1..Len(UpperChars) : UpperChars[i] = c]
    ELSE c

\* str.lower()
str_lower(s) == [i \in 1..Len(s) |-> lower_char(s[i])]

\* s[i:i+len(pat)] == pat
MatchAt(s, i, pat) ==
    /\ i >= 1
    /\ i + Len(pat) - 1 <= Len(s)
    /\ \A k \in 1..Len(pat) : s[i + k - 1] = pat[k]

\* pat in s
str_in(pat, s) == \E i \in 1..(Len(s) - Len(pat) + 1) : MatchAt(s, i, pat)

\* s.endswith(suf)
str_endswith(s, suf) == MatchAt(s, Len(s) - Len(suf) + 1, suf)

\* s.replace(old, new): every non-overlapping occurrence, left to right.
RECURSIVE str_replace_from(_, _, _, _)
str_replace_from(s, i, old, new) ==
    IF i > Len(s) THEN <<>>
    ELSE IF MatchAt(s, i, old)
         THEN new \o str_replace_from(s, i + Len(old), old, new)
         ELSE <<s[i]>> \o str_replace_from(s, i + 1, old, new)

str_replace(s, old, new) == str_replace_from(s, 1, old, new)

\* The regular expression classes \s, \w and \d (ASCII).
IsSpace(c) == c \in {" ", "\t"}

IsDigit(c) == c \in Range(DigitChars)

IsWord(c) == c \in Range(LowerChars) \cup Range(UpperChars) \cup Range(DigitChars) \cup {"_"}

\* The first index from i on that holds no whitespace (greedy \s*).
SpaceEnd(s, i) ==
    CHOOSE j \in i..(Len(s) + 1) :
        /\ \A k \in i..(j - 1) : IsSpace(s[k])
        /\ (j = Len(s) + 1 \/ ~IsSpace(s[j]))

\* The first index from i on that holds no word character (greedy [\w\d]+).
WordEnd(s, i) ==
    CHOOSE j \in i..(Len(s) + 1) :
        /\ \A k \in i..(j - 1) : IsWord(s[k])
        /\ (j = Len(s) + 1 \/ ~IsWord(s[j]))

\* s.strip()
str_strip(s) ==
    IF \A k \in 1..Len(s) : IsSpace(s[k]) THEN <<>>
    ELSE LET a == CHOOSE j \in 1..Len(s) :
                      ~IsSpace(s[j]) /\ \A k \in 1..(j - 1) : IsSpace(s[k])
             b == CHOOSE j \in 1..Len(s) :
                      ~IsSpace(s[j]) /\ \A k \in (j + 1)..Len(s) : IsSpace(s[k])
         IN  SubSeq(s, a, b)

\* os.path.splitext(filename)[0], for a name without a directory part.
splitext_root(s) ==
    LET dots == {i \in 1..Len(s) : s[i] = "."}
    IN  IF dots = {} THEN s
        ELSE LET d == CHOOSE i \in dots : \A j \in dots : j <= i
             IN  IF \E k \in 1..(d - 1) : s[k] # "." THEN SubSeq(s, 1, d - 1) ELSE s

(***************************************************************************)
(* normalize_game_name                                                     *)
(***************************************************************************)
PLACEHOLDER == <<"-", "-", "-", "P", "R", "E", "S", "E", "R", "V", "E", "D", "-", "-", "-">>

DiscWords == {<<"d", "i", "s", "c">>, <<"d", "i", "s", "k">>, <<"c", "d">>}

\* The end of the match of [\(\[]\s*(?:disc|disk|cd)\s*[\w\d]+\s*[\) \]] that
\* starts at i (case-insensitive), 0 when there is none.  The greedy \s* before
\* the closing class gives one blank back when no bracket follows, since the
\* class holds the blank.
DiscMatchEnd(s, i) ==
    IF ~(i >= 1 /\ i <= Len(s) /\ s[i] \in {"(", "["}) THEN 0
    ELSE LET low == str_lower(s)
             j1  == SpaceEnd(s, i + 1)
             kws == {w \in DiscWords : MatchAt(low, j1, w)}
         IN  IF kws = {} THEN 0
             ELSE LET kw == CHOOSE w \in kws : TRUE
                      j3 == SpaceEnd(s, j1 + Len(kw))
                      j4 == WordEnd(s, j3)
                      j5 == SpaceEnd(s, j4)
                  IN  IF j4 = j3 THEN 0
                      ELSE IF j5 <= Len(s) /\ s[j5] \in {")", "]"} THEN j5
                      ELSE IF j5 > j4 THEN j5 - 1
                      ELSE 0

\* re.findall of the disc pattern: the matches from i on, left to right.
RECURSIVE FindAllDisc(_, _)
FindAllDisc(s, i) ==
    IF i > Len(s) THEN <<>>
    ELSE LET e == DiscMatchEnd(s, i)
         IN  IF e = 0 THEN FindAllDisc(s, i + 1)
             ELSE <<SubSeq(s, i, e)>> \o FindAllDisc(s, e + 1)

ModeTail == <<"m", "o", "d", "e", ")">>

\* The end of the match of \(.*\sMode\) that starts at i (case-insensitive,
\* greedy: the last " Mode)" of the name), 0 when there is none.
ModeMatchEnd(s, i) ==
    IF ~(i >= 1 /\ i <= Len(s) /\ s[i] = "(") THEN 0
    ELSE LET low  == str_lower(s)
             ends == {e \in (i + 1)..Len(s) :
                         /\ e - Len(ModeTail) > i
                         /\ IsSpace(s[e - Len(ModeTail)])
                         /\ MatchAt(low, e - Len(ModeTail) + 1, ModeTail)}
         IN  IF ends = {} THEN 0 ELSE CHOOSE e \in ends : \A x \in ends : x <= e

\* re.findall of the mode pattern.
RECURSIVE FindAllMode(_, _)
FindAllMode(s, i) ==
    IF i > Len(s) THEN <<>>
    ELSE LET e == ModeMatchEnd(s, i)
         IN  IF e = 0 THEN FindAllMode(s, i + 1)
             ELSE <<SubSeq(s, i, e)>> \o FindAllMode(s, e + 1)

\* for match in matches: name = name.replace(match, '---PRESERVED---')
RECURSIVE ReplaceMatches(_, _, _)
ReplaceMatches(name, matches, k) ==
    IF k > Len(matches) THEN name
    ELSE ReplaceMatches(str_replace(name, matches[k], PLACEHOLDER), matches, k + 1)

\* re.sub(open .*? close, '', s): every leftmost shortest delimited segment.
RECURSIVE StripDelimited(_, _, _, _)
StripDelimited(s, i, open, close) ==
    IF i > Len(s) THEN <<>>
    ELSE IF s[i] = open /\ \E j \in (i + 1)..Len(s) : s[j] = close
         THEN LET j == CHOOSE x \in (i + 1)..Len(s) :
                           s[x] = close /\ \A y \in (i + 1)..(x - 1) : s[y] # close
              IN  StripDelimited(s, j + 1, open, close)
         ELSE <<s[i]>> \o StripDelimited(s, i + 1, open, close)

\* str.format(*args) on a text whose only replacement fields are meant to be
\* "{}": the result as <<TRUE, text>>, or <<FALSE, <<>>>> when format raises
\* (a lone brace, a named field, more fields than arguments).
RECURSIVE str_format(_, _, _, _)
str_format(s, i, args, k) ==
    IF i > Len(s) THEN <<TRUE, <<>>>>
    ELSE IF MatchAt(s, i, <<"{", "{">>) \/ MatchAt(s, i, <<"}", "}">>)
         THEN LET r == str_format(s, i + 2, args, k)
              IN  IF r[1] THEN <<TRUE, <<s[i]>> \o r[2]>> ELSE r
    ELSE IF MatchAt(s, i, <<"{", "}">>)
         THEN IF k > Len(args) THEN <<FALSE, <<>>>>
              ELSE LET r == str_format(s, i + 2, args, k + 1)
                   IN  IF r[1] THEN <<TRUE, args[k] \o r[2]>> ELSE r
    ELSE IF s[i] \in {"{", "}"} THEN <<FALSE, <<>>>>
    ELSE LET r == str_format(s, i + 1, args, k)
         IN  IF r[1] THEN <<TRUE, <<s[i]>> \o r[2]>> ELSE r

\* normalize_game_name(filename) as <<TRUE, key>>, or <<FALSE, <<>>>> when the
\* restoring str.format raises.
normalize_game_name(filename) ==
    LET name0   == splitext_root(filename)
        discs   == FindAllDisc(name0, 1)
        name1   == ReplaceMatches(name0, discs, 1)
        modes   == FindAllMode(name1, 1)
        name2   == ReplaceMatches(name1, modes, 1)
        preserved_info == discs \o modes
        name3   == StripDelimited(name2, 1, "[", "]")
        name4   == StripDelimited(name3, 1, "(", ")")
    IN  IF preserved_info = <<>> THEN <<TRUE, str_strip(name4)>>
        ELSE LET r == str_format(str_replace(name4, PLACEHOLDER, <<"{", "}">>), 1,
                                 preserved_info, 1)
             IN  IF r[1] THEN <<TRUE, str_strip(r[2])>> ELSE r

(***************************************************************************)
(* get_region_priority and the release year                                *)
(***************************************************************************)
Tags1 == {<<"(", "e", "u", "r", "o", "p", "e", ")">>,
          <<"(", "e", "n", ",", "f", "r", ",", "d", "e", ")">>,
          <<"(", "w", "o", "r", "l", "d", ")">>}

Tags2 == {<<"(", "u", "s", "a", ")">>, <<"(", "u", "s", ")">>}

Tags4 == {<<"(", "j", "a", "p", "a", "n", ")">>, <<"(", "j", "p", ")">>,
          <<"(", "a", "s", "i", "a", ")">>, <<"(", "k", "o", ")">>,
          <<"(", "c", "h", ")">>}

\* get_region_priority with the test for the Japan tags before the test for
\* the USA tags.
get_region_priority_japan_first(filename) ==
    LET filename_lower == str_lower(filename)
    IN  IF \E tag \in Tags1 : str_in(tag, filename_lower) THEN 1
        ELSE IF \E tag \in Tags4 : str_in(tag, filename_lower) THEN 4
        ELSE IF \E tag \in Tags2 : str_in(tag, filename_lower) THEN 2
        ELSE 3

get_region_priority(filename) ==
    LET filename_lower == str_lower(filename)
    IN  IF \E tag \in Tags1 : str_in(tag, filename_lower) THEN 1
        ELSE IF \E tag \in Tags2 : str_in(tag, filename_lower) THEN 2
        ELSE IF \E tag \in Tags4 : str_in(tag, filename_lower) THEN 4
        ELSE 3

DigitValue(c) == (CHOOSE i \in 1..Len(DigitChars) : DigitChars[i] = c) - 1

\* re.search(r'\((\d{4})\)', file): the year of the first "(dddd)", else 0.
extract_year(file) ==
    LET hits == {i \in 1..(Len(file) - 5) :
                    /\ file[i] = "("
                    /\ \A k \in 1..4 : IsDigit(file[i + k])
                    /\ file[i + 5] = ")"}
    IN  IF hits = {} THEN 0
        ELSE LET i == CHOOSE x \in hits : \A y \in hits : x <= y
             IN  1000 * DigitValue(file[i + 1]) + 100 * DigitValue(file[i + 2])
                 + 10 * DigitValue(file[i + 3]) + DigitValue(file[i + 4])

(***************************************************************************)
(* Knowledge base                                                          *)
(***************************************************************************)
SYSTEM_GENERATIONS ==
    {<<"nes", 3>>, <<"famicom", 3>>, <<"mastersystem", 3>>, <<"mark3", 3>>,
     <<"sg-1000", 3>>, <<"atari7800", 3>>, <<"megadrive", 4>>, <<"genesis", 4>>,
     <<"snes", 4>>, <<"sfc", 4>>, <<"superfamicom", 4>>, <<"pcengine", 4>>,
     <<"tg16", 4>>, <<"neogeo", 4>>, <<"segacd", 4>>, <<"amigacd32", 4>>,
     <<"cdi", 4>>, <<"psx", 5>>, <<"n64", 5>>, <<"saturn", 5>>, <<"dreamcast", 5>>,
     <<"3do", 5>>, <<"jaguar", 5>>, <<"pcfx", 5>>, <<"sega32x", 5>>,
     <<"virtualboy", 5>>, <<"ps2", 6>>, <<"gc", 6>>, <<"gamecube", 6>>,
     <<"xbox", 6>>, <<"wii", 7>>, <<"ps3", 7>>, <<"xbox360", 7>>, <<"wiiu", 8>>,
     <<"ps4", 8>>, <<"switch", 8>>, <<"mame", 4>>, <<"fbneo", 4>>,
     <<"atari2600", 2>>, <<"atari5200", 2>>, <<"intellivision", 2>>,
     <<"colecovision", 2>>, <<"channelf", 1>>, <<"odyssey2", 1>>,
     <<"videopac", 1>>, <<"vectrex", 2>>, <<"gameboy", 3>>, <<"gamegear", 4>>,
     <<"lynx", 4>>, <<"atarilynx", 4>>, <<"gbc", 5>>, <<"ngp", 5>>, <<"ngpc", 5>>,
     <<"neogeopocketcolor", 5>>, <<"wonderswan", 5>>, <<"wswan", 5>>,
     <<"wonderswancolor", 5>>, <<"wswanc", 5>>, <<"gba", 6>>, <<"psp", 7>>,
     <<"nds", 7>>, <<"3ds", 8>>, <<"psvita", 8>>, <<"gamepock", 3>>,
     <<"supervision", 4>>, <<"gamate", 4>>, <<"gamecom", 5>>}

HANDHELD_SYSTEMS ==
    {"gameboy", "gb", "gamegear", "lynx", "atarilynx", "gbc", "ngp", "ngpc",
     "neogeopocketcolor", "wonderswan", "wswan", "wonderswancolor", "wswanc",
     "gba", "psp", "nds", "3ds", "n3ds", "psvita", "gamepock", "supervision",
     "gamate", "gamecom", "pokemini", "vsmile"}

\* The default list of get_supported_extensions (no systeminfo.txt).
get_supported_extensions ==
    {<<".", "z", "i", "p">>, <<".", "7", "z">>, <<".", "i", "s", "o">>,
     <<".", "c", "u", "e">>, <<".", "c", "h", "d">>}

\* SYSTEM_GENERATIONS.get(system, 0)
generation_of(system) ==
    IF \E p \in SYSTEM_GENERATIONS : p[1] = system
    THEN (CHOOSE p \in SYSTEM_GENERATIONS : p[1] = system)[2]
    ELSE 0

(***************************************************************************)
(* find_best_rom                                                           *)
(***************************************************************************)
\* One round of the loop, mutated: on equal region priority the competitor
\* also wins when its size is equal.
competitor_wins_on_equal_size(winner, competitor) ==
    LET winner_gen     == generation_of(winner.system)
        competitor_gen == generation_of(competitor.system)
    IN  IF winner_gen # competitor_gen THEN competitor_gen > winner_gen
        ELSE IF competitor.year > winner.year THEN TRUE
        ELSE IF competitor.year = winner.year
             THEN IF competitor.region_priority < winner.region_priority THEN TRUE
                  ELSE IF competitor.region_priority = winner.region_priority
                       THEN competitor.size <= winner.size
                       ELSE FALSE
             ELSE FALSE

\* One round of the loop: whether the competitor replaces the winner.
competitor_wins(winner, competitor) ==
    LET winner_gen     == generation_of(winner.system)
        competitor_gen == generation_of(competitor.system)
    IN  IF winner_gen # competitor_gen THEN competitor_gen > winner_gen
        ELSE IF competitor.year > winner.year THEN TRUE
        ELSE IF competitor.year = winner.year
             THEN IF competitor.region_priority < winner.region_priority THEN TRUE
                  ELSE IF competitor.region_priority = winner.region_priority
                       THEN competitor.size < winner.size
                       ELSE FALSE
             ELSE FALSE

RECURSIVE find_best_from(_, _, _)
find_best_from(rom_list, i, winner) ==
    IF i > Len(rom_list) THEN winner
    ELSE find_best_from(rom_list, i + 1,
                        IF competitor_wins(winner, rom_list[i]) THEN rom_list[i]
                        ELSE winner)

\* find_best_rom(rom_list): <<>> for None, <<winner>> otherwise.
find_best_rom(rom_list) ==
    IF rom_list = <<>> THEN <<>> ELSE <<find_best_from(rom_list, 2, rom_list[1])>>

(***************************************************************************)
(* resolve_duplicates, for one group                                       *)
(***************************************************************************)
\* next((r for r in candidates if r['system'] == system), None)
first_of_system(candidates, system) ==
    LET hits == SelectSeq(candidates, LAMBDA r : r.system = system)
    IN  IF hits = <<>> THEN <<>> ELSE <<hits[1]>>

\* candidates.remove(loser), forgotten.
list_remove_nothing(lst, x) == lst

\* candidates.remove(loser): the list without the first element equal to x.
list_remove(lst, x) ==
    LET i == CHOOSE k \in 1..Len(lst) : lst[k] = x /\ \A j \in 1..(k - 1) : lst[j] # x
    IN  SubSeq(lst, 1, i - 1) \o SubSeq(lst, i + 1, Len(lst))

\* The test of the MAME/FBNeo rule with "or" for "and".
mame_is_kept_or(mame_rom, fbneo_rom) ==
    fbneo_rom.region_priority = 4 \/ mame_rom.region_priority < 4

\* fbneo_rom['region_priority'] == 4 and mame_rom['region_priority'] < 4
mame_is_kept(mame_rom, fbneo_rom) ==
    fbneo_rom.region_priority = 4 /\ mame_rom.region_priority < 4

\* The special MAME vs FBNeo rule: <<>> when it does not apply, else the
\* winner and the loser it names.
mame_fbneo_rule(candidates) ==
    LET mame_rom  == first_of_system(candidates, "mame")
        fbneo_rom == first_of_system(candidates, "fbneo")
    IN  IF mame_rom # <<>> /\ fbneo_rom # <<>>
        THEN IF mame_is_kept(mame_rom[1], fbneo_rom[1])
             THEN <<[winner |-> mame_rom[1], loser |-> fbneo_rom[1]]>>
             ELSE <<[winner |-> fbneo_rom[1], loser |-> mame_rom[1]]>>
        ELSE <<>>

handhelds_of(candidates) ==
    SelectSeq(candidates, LAMBDA r : r.system \in HANDHELD_SYSTEMS)

consoles_of(candidates) ==
    SelectSeq(candidates, LAMBDA r : r.system \notin HANDHELD_SYSTEMS)

\* The handheld exception without its configuration flag.
keeps_both_whatever_flag(handhelds, consoles, keep) ==
    handhelds # <<>> /\ consoles # <<>>

\* handhelds and consoles and KEEP_HANDHELD_AND_CONSOLE_DUPLICATES
keeps_both(handhelds, consoles, keep) ==
    handhelds # <<>> /\ consoles # <<>> /\ keep

\* The pools handed to find_best_rom, in call order.
best_pools(candidates, keep) ==
    LET handhelds == handhelds_of(candidates)
        consoles  == consoles_of(candidates)
    IN  IF keeps_both(handhelds, consoles, keep) THEN <<handhelds, consoles>>
        ELSE <<candidates>>

RECURSIVE bests_of(_, _)
bests_of(pools, i) ==
    IF i > Len(pools) THEN <<>>
    ELSE find_best_rom(pools[i]) \o bests_of(pools, i + 1)

\* The last loop's test, mutated: every candidate is moved.
is_moved_always(cand, kept_roms) == TRUE

\* cand not in kept_roms
is_moved(cand, kept_roms) == cand \notin Range(kept_roms)

\* The last loop run from the end of candidates to its start.
general_moves_reversed(candidates, kept_roms) ==
    LET sel == SelectSeq(candidates, LAMBDA cand : is_moved(cand, kept_roms))
    IN  [i \in 1..Len(sel) |-> sel[Len(sel) + 1 - i]]

\* for cand in candidates: if cand not in kept_roms: move_duplicate(cand['path'])
\* The candidates passed to move_duplicate, in call order.
general_moves(candidates, kept_roms) ==
    SelectSeq(candidates, LAMBDA cand : is_moved(cand, kept_roms))

\* What resolve_duplicates does with one group of two or more ROMs, short of
\* touching the disk: the rule's verdict, the candidates left after it, the
\* pools ranked, kept_roms, and plan, the arguments of its move_duplicate
\* calls in call order.
resolve_group(roms, keep) ==
    LET rule       == mame_fbneo_rule(roms)
        candidates == IF rule # <<>> THEN list_remove(roms, rule[1].loser) ELSE roms
        first      == IF rule # <<>> THEN <<rule[1].loser>> ELSE <<>>
    IN  IF Len(candidates) <= 1
        THEN [roms |-> roms, rule |-> rule, candidates |-> candidates,
              pools |-> <<>>, kept_roms |-> <<>>, plan |-> first]
        ELSE LET pools     == best_pools(candidates, keep)
                 kept_roms == bests_of(pools, 1)
             IN  [roms |-> roms, rule |-> rule, candidates |-> candidates,
                  pools |-> pools, kept_roms |-> kept_roms,
                  plan |-> first \o general_moves(candidates, kept_roms)]

(***************************************************************************)
(* move_duplicate                                                          *)
(***************************************************************************)
PathOf(f) == <<f.dir, f.name>>

\* shutil.move(file_path, dest_path) raises when the source is gone.
SourceExists(fs, file_path) == \E f \in fs.tree : PathOf(f) = file_path

\* The disk after a move that leaves the source where it was (a copy).
moved_disk_copy(fs, file_path) ==
    LET f == CHOOSE x \in fs.tree : PathOf(x) = file_path
    IN  [tree |-> fs.tree,
         quar |-> {q \in fs.quar : PathOf(q) # file_path}
                  \cup {[dir |-> f.dir, name |-> f.name, size |-> f.size, origin |-> "tree"]},
         dup  |-> TRUE]

\* The disk after os.makedirs(dirname(dest_path), exist_ok=True) and
\* shutil.move(file_path, dest_path), dest_path being DUPLICATES_PATH joined
\* with the path relative to ROMS_PATH: the file leaves the collection and
\* takes the place of whatever file the quarantine held at dest_path
\* (os.rename replaces an existing destination file).
moved_disk(fs, file_path) ==
    LET f == CHOOSE x \in fs.tree : PathOf(x) = file_path
    IN  [tree |-> fs.tree \ {f},
         quar |-> {q \in fs.quar : PathOf(q) # file_path}
                  \cup {[dir |-> f.dir, name |-> f.name, size |-> f.size, origin |-> "tree"]},
         dup  |-> TRUE]

\* move_duplicate that never looks at DRY_RUN.
move_duplicate_always(fs, file_path, dry) ==
    [fs |-> moved_disk(fs, file_path), line |-> <<"Moved", file_path>>]

\* move_duplicate(file_path) when nothing raises: the disk afterwards and the
\* line printed.
move_duplicate(fs, file_path, dry) ==
    IF ~dry
    THEN [fs |-> moved_disk(fs, file_path), line |-> <<"Moved", file_path>>]
    ELSE [fs |-> fs, line |-> <<"[DRY RUN] Would move", file_path>>]

\* The first n calls of a group's plan, none raising: the disk afterwards and
\* the lines printed.  ok is FALSE when one of them finds its source gone.
RECURSIVE run_moves(_, _, _, _, _)
run_moves(fs, lines, plan, n, dry) ==
    IF n = 0 THEN [ok |-> TRUE, fs |-> fs, lines |-> lines]
    ELSE LET before == run_moves(fs, lines, plan, n - 1, dry)
         IN  IF ~before.ok \/ (~dry /\ ~SourceExists(before.fs, plan[n].path))
             THEN [ok |-> FALSE, fs |-> before.fs, lines |-> before.lines]
             ELSE LET r == move_duplicate(before.fs, plan[n].path, dry)
                  IN  [ok |-> TRUE, fs |-> r.fs, lines |-> Append(before.lines, r.line)]

(***************************************************************************)
(* find_roms                                                               *)
(***************************************************************************)
\* The characters of the file names of the model.
Spelling ==
    [n \in {"G (USA).zip", "G (US).zip", "G (Japan).zip", "G (1999).zip", "H.zip",
             "(USA).zip", "(Europe).zip"} |->
        CASE n = "G (USA).zip"   -> <<"G", " ", "(", "U", "S", "A", ")", ".", "z", "i", "p">>
          [] n = "(USA).zip"     -> <<"(", "U", "S", "A", ")", ".", "z", "i", "p">>
          [] n = "(Europe).zip"  -> <<"(", "E", "u", "r", "o", "p", "e", ")", ".", "z", "i", "p">>
          [] n = "G (US).zip"    -> <<"G", " ", "(", "U", "S", ")", ".", "z", "i", "p">>
          [] n = "G (Japan).zip" -> <<"G", " ", "(", "J", "a", "p", "a", "n", ")", ".", "z", "i", "p">>
          [] n = "G (1999).zip"  -> <<"G", " ", "(", "1", "9", "9", "9", ")", ".", "z", "i", "p">>
          [] n = "H.zip"         -> <<"H", ".", "z", "i", "p">>]

\* any(file.lower().endswith(ext) for ext in extensions)
has_supported_extension(file) ==
    \E ext \in get_supported_extensions : str_endswith(str_lower(file), ext)

\* What find_roms computes from the name of a file, for every file name of
\* the model.
NameInfo ==
    [n \in DOMAIN Spelling |->
        [supported       |-> has_supported_extension(Spelling[n]),
         normalized      |-> normalize_game_name(Spelling[n]),
         year            |-> extract_year(Spelling[n]),
         region_priority |-> get_region_priority(Spelling[n])]]

\* os.path.join(root, file) for a file of the walk: a file of the quarantine
\* directory has DUPLICATES_PATH before its directory.
WalkPath(f) ==
    IF "origin" \in DOMAIN f THEN <<"duplicates", f.dir, f.name>> ELSE PathOf(f)

\* The dict appended for one file.  system is os.path.basename(root), the
\* name of the directory as it is on disk.
rom_of(f, info) ==
    [path |-> WalkPath(f), system |-> f.dir, filename |-> f.name,
     year |-> info.year, region_priority |-> info.region_priority,
     size |-> f.size]

\* The loop over the files in walk order.  games is the dict as the sequence
\* of its items in insertion order, infos what is computed from each file
\* name, hard the paths whose size cannot be read.  ok is FALSE when
\* normalize_game_name or os.path.getsize raises: nothing catches it.
RECURSIVE find_roms_from(_, _, _, _, _)
find_roms_from(files, i, games, infos, hard) ==
    IF i > Len(files) THEN [ok |-> TRUE, games |-> games]
    ELSE LET info == infos[files[i].name]
             at == {g \in 1..Len(games) : games[g].name = info.normalized[2]}
         IN IF ~info.supported THEN find_roms_from(files, i + 1, games, infos, hard)
            ELSE IF ~info.normalized[1] \/ WalkPath(files[i]) \in hard
                 THEN [ok |-> FALSE, games |-> games]
            ELSE find_roms_from(files, i + 1,
                     IF at = {}
                     THEN Append(games, [name |-> info.normalized[2],
                                         roms |-> <<rom_of(files[i], info)>>])
                     ELSE [games EXCEPT ![CHOOSE g \in at : TRUE].roms =
                                            Append(@, rom_of(files[i], info))],
                     infos, hard)

find_roms(files, hard) == find_roms_from(files, 1, <<>>, NameInfo, hard)

\* The filter on dirs that lets the quarantine directory through.
walk_keeps_quarantine(d, lnk) == d \notin lnk

\* The two filters on dirs at the top of the walk: a directory stays unless
\* it is a symbolic link or its absolute path is that of DUPLICATES_PATH.
walk_keeps(d, lnk) == d \notin lnk /\ d # "duplicates"

\* The files os.walk(ROMS_PATH) hands over: those of the directories the
\* filters keep, the quarantine directory being one directory of the top.
walked(fs, lnk) ==
    {f \in fs.tree : walk_keeps(f.dir, lnk)}
    \cup (IF fs.dup /\ walk_keeps("duplicates", lnk) THEN fs.quar ELSE {})

\* The orders in which os.walk can hand over a set of files: directory by
\* directory, the directories and the files of each in the order the file
\* system lists them.
WalkOrders(files) ==
    {s \in [1..Cardinality(files) -> files] :
        /\ \A i, j \in DOMAIN s : i # j => s[i] # s[j]
        /\ \A i, j, k \in DOMAIN s :
               (i < j /\ j < k /\ s[i].dir = s[k].dir) => s[j].dir = s[i].dir}

(***************************************************************************)
(* The collection the runs start from                                      *)
(***************************************************************************)
\* The files the collection may hold when the first run starts, as
\* <<directory under ROMS_PATH, file name, size>>.  The directories are two
\* arcade systems of generation 4, a console of generation 5 and a handheld
\* that SYSTEM_GENERATIONS does not list.  The names are one title in four
\* releases (two of them alike in year and region) and a second title.
Catalogue ==
    {<<"mame", "G (1999).zip", 1>>, <<"mame", "G (Japan).zip", 1>>,
     <<"mame", "H.zip", 1>>,
     <<"fbneo", "G (USA).zip", 2>>, <<"fbneo", "G (Japan).zip", 1>>,
     <<"psx", "G (USA).zip", 1>>, <<"psx", "G (US).zip", 1>>,
     <<"psx", "H.zip", 1>>,
     <<"gb", "G (USA).zip", 1>>, <<"gb", "G (US).zip", 2>>}

\* A file an earlier run may have left in the quarantine directory.
OldFiles == {[dir |-> "mame", name |-> "G (Japan).zip", size |-> 2, origin |-> "old"]}

\* The collections of at most MaxFiles files of a catalogue, no two files at
\* one path.
Trees(catalogue) ==
    {{[dir |-> c[1], name |-> c[2], size |-> c[3]] : c \in S} :
        S \in {T \in SUBSET catalogue :
                  /\ Cardinality(T) <= MaxFiles
                  /\ \A x, y \in T : (x[1] = y[1] /\ x[2] = y[2]) => x = y}}

(***************************************************************************)
(* State                                                                   *)
(***************************************************************************)
VARIABLES
    DRY_RUN,          \* the configuration flag
    KEEP_HANDHELD_AND_CONSOLE_DUPLICATES,  \* the configuration flag
    romsExists,       \* os.path.isdir(ROMS_PATH)
    tree,             \* the files under ROMS_PATH, outside DUPLICATES_PATH
    quar,             \* the files under DUPLICATES_PATH
    dupExists,        \* os.path.exists(DUPLICATES_PATH)
    pc,               \* where main is: "start", "resolve", "done"
    run,              \* the number of the current run
    games,            \* the result of find_roms
    gi,               \* the next item of games in resolve_duplicates
    outcomes,         \* what was done with each group of this run, in order
    printed,          \* the lines printed by this run
    exitStatus,       \* the process exit status, -1 while the run lasts
    start,            \* the disk when this run started
    prevOk,           \* the run before this one moved files and exited with 0
    links,            \* the directories under ROMS_PATH that are symbolic links
    unreadable,       \* the paths on which os.path.getsize raises OSError
    fname,            \* a file name handed to the functions of one name
    applied           \* what they returned for it, <<>> before the call

vars == <<DRY_RUN, KEEP_HANDHELD_AND_CONSOLE_DUPLICATES, romsExists, tree, quar,
          dupExists, pc, run, games, gi, outcomes, printed, exitStatus, start, prevOk,
          links, unreadable, fname, applied>>

\* What no run changes: the flags, the existence of ROMS_PATH, the symbolic
\* links, the unreadable paths, and the name kept for the functions of one
\* name.
config == <<DRY_RUN, KEEP_HANDHELD_AND_CONSOLE_DUPLICATES, romsExists, links,
            unreadable, fname, applied>>

Disk == [tree |-> tree, quar |-> quar, dup |-> dupExists]

\* The name the functions of one name are applied to: a title and the tags
\* that follow it.
NoTags == [title |-> "G", tags |-> <<>>]

InitOver(trees, olds, linkable, hard) ==
    /\ DRY_RUN \in BOOLEAN
    /\ KEEP_HANDHELD_AND_CONSOLE_DUPLICATES \in BOOLEAN
    /\ romsExists \in BOOLEAN
    /\ tree \in trees
    /\ quar \in SUBSET olds
    /\ dupExists = (quar # {})
    /\ romsExists = FALSE => (tree = {} /\ quar = {})
    /\ links \in SUBSET {d \in linkable : \E f \in tree : f.dir = d}
    /\ unreadable \in SUBSET {h \in hard : \E f \in tree : PathOf(f) = h}
    /\ fname = NoTags
    /\ applied = <<>>
    /\ pc = "start"
    /\ run = 1
    /\ games = <<>>
    /\ gi = 1
    /\ outcomes = <<>>
    /\ printed = <<>>
    /\ exitStatus = -1
    /\ start = [tree |-> tree, quar |-> quar, dup |-> dupExists]
    /\ prevOk = FALSE

Init == InitOver(Trees(Catalogue), OldFiles, {}, {})

\* A second collection: a directory named in capitals, files whose names
\* are nothing but a tag, a directory that may be a symbolic link and a file
\* whose size may be unreadable.
CatalogueScan ==
    {<<"MAME", "G (USA).zip", 1>>, <<"fbneo", "G (Japan).zip", 1>>,
     <<"psx", "(USA).zip", 1>>, <<"psx", "(Europe).zip", 2>>,
     <<"psx", "G (USA).zip", 1>>, <<"gb", "G (USA).zip", 1>>}

\* The directories of the second collection that may be symbolic links.
LinkDirs == {"gb"}

\* The paths of the second collection on which os.path.getsize may raise.
UnreadablePaths == {<<"psx", "G (USA).zip">>}

InitScan == InitOver(Trees(CatalogueScan), OldFiles, LinkDirs, UnreadablePaths)

(***************************************************************************)
(* main                                                                    *)
(***************************************************************************)
\* if not os.path.isdir(ROMS_PATH): print the error and return.
MainNoRoms ==
    /\ pc = "start"
    /\ ~romsExists
    /\ printed' = Append(printed, <<"Error: ROMs directory not found">>)
    /\ exitStatus' = 0
    /\ pc' = "done"
    /\ UNCHANGED <<config, tree, quar, dupExists, run, games, gi, outcomes, start, prevOk>>

\* The duplicates directory is created unless DRY_RUN, then find_roms walks
\* the collection.  An exception out of find_roms ends the process with
\* status 1.
MainScan ==
    /\ pc = "start"
    /\ romsExists
    /\ dupExists' = (dupExists \/ ~DRY_RUN)
    /\ \E files \in WalkOrders(walked(Disk, links)) :
          LET found == find_roms(files, unreadable)
          IN  IF found.ok
              THEN /\ games' = found.games
                   /\ pc' = "resolve"
                   /\ exitStatus' = exitStatus
              ELSE /\ games' = games
                   /\ pc' = "done"
                   /\ exitStatus' = 1
    /\ gi' = 1
    /\ UNCHANGED <<config, tree, quar, run, outcomes, printed, start, prevOk>>

\* One round of the loop of resolve_duplicates over games.items(): a group
\* of at most one ROM is passed over, any other is resolved and every call
\* of move_duplicate returns.
ResolveGroup ==
    /\ pc = "resolve"
    /\ gi <= Len(games)
    /\ LET roms == games[gi].roms
       IN  IF Len(roms) <= 1
           THEN UNCHANGED <<tree, quar, dupExists, outcomes, printed>>
           ELSE LET res  == resolve_group(roms, KEEP_HANDHELD_AND_CONSOLE_DUPLICATES)
                    done == run_moves(Disk, printed, res.plan, Len(res.plan), DRY_RUN)
                IN  /\ done.ok
                    /\ tree' = done.fs.tree
                    /\ quar' = done.fs.quar
                    /\ dupExists' = done.fs.dup
                    /\ printed' = done.lines
                    /\ outcomes' = Append(outcomes,
                           [name |-> games[gi].name, roms |-> roms, rule |-> res.rule,
                            pools |-> res.pools,
                            kept_roms |-> res.kept_roms,
                            plan |-> res.plan, moved |-> res.plan, raised |-> FALSE])
    /\ gi' = gi + 1
    /\ UNCHANGED <<config, pc, run, games, exitStatus, start, prevOk>>

\* The same round when a call of move_duplicate raises (shutil.move or
\* os.makedirs fails, or the source is gone): the n calls before it have
\* returned, nothing catches the exception, and the process ends with
\* status 1.
ResolveGroupRaises ==
    /\ pc = "resolve"
    /\ gi <= Len(games)
    /\ ~DRY_RUN
    /\ Len(games[gi].roms) > 1
    /\ LET roms == games[gi].roms
           res  == resolve_group(roms, KEEP_HANDHELD_AND_CONSOLE_DUPLICATES)
       IN  \E n \in 0..(Len(res.plan) - 1) :
              LET done == run_moves(Disk, printed, res.plan, n, DRY_RUN)
              IN  /\ done.ok
                  /\ tree' = done.fs.tree
                  /\ quar' = done.fs.quar
                  /\ dupExists' = done.fs.dup
                  /\ printed' = done.lines
                  /\ outcomes' = Append(outcomes,
                         [name |-> games[gi].name, roms |-> roms, rule |-> res.rule,
                          pools |-> res.pools,
                          kept_roms |-> res.kept_roms,
                          plan |-> res.plan, moved |-> SubSeq(res.plan, 1, n + 1),
                          raised |-> TRUE])
    /\ pc' = "done"
    /\ exitStatus' = 1
    /\ UNCHANGED <<config, run, games, gi, start, prevOk>>

\* resolve_duplicates has returned: main prints its last lines and returns.
Finish ==
    /\ pc = "resolve"
    /\ gi > Len(games)
    /\ pc' = "done"
    /\ exitStatus' = 0
    /\ UNCHANGED <<config, tree, quar, dupExists, run, games, gi, outcomes, printed,
                   start, prevOk>>

\* The script is started again on the disk the last run left, with the same
\* configuration.
NextRun ==
    /\ pc = "done"
    /\ run < MaxRuns
    /\ run' = run + 1
    /\ pc' = "start"
    /\ games' = <<>>
    /\ gi' = 1
    /\ outcomes' = <<>>
    /\ printed' = <<>>
    /\ exitStatus' = -1
    /\ start' = Disk
    /\ prevOk' = (exitStatus = 0 /\ ~DRY_RUN /\ romsExists)
    /\ UNCHANGED <<config, tree, quar, dupExists>>

Next == MainNoRoms \/ MainScan \/ ResolveGroup \/ ResolveGroupRaises \/ Finish \/ NextRun

Spec == Init /\ [][Next]_vars

\* The runs of the script over the second collection.
SpecScan == InitScan /\ [][Next]_vars

(***************************************************************************)
(* The functions of one file name, called on their own                     *)
(***************************************************************************)
\* The characters of the titles and of the tags file names are made of.
TitleSpelling ==
    [n \in {"G", "G 2"} |->
        CASE n = "G"   -> <<"G">>
          [] n = "G 2" -> <<"G", " ", "2">>]

TagSpelling ==
    [n \in {"(USA)", "(us)", "(Europe)", "(World)", "(Japan)", "(JP)",
             "(Disc 1)", "(Arcade Mode)", "[!]"} |->
        CASE n = "(USA)"         -> <<"(", "U", "S", "A", ")">>
          [] n = "(us)"          -> <<"(", "u", "s", ")">>
          [] n = "(Europe)"      -> <<"(", "E", "u", "r", "o", "p", "e", ")">>
          [] n = "(World)"       -> <<"(", "W", "o", "r", "l", "d", ")">>
          [] n = "(Japan)"       -> <<"(", "J", "a", "p", "a", "n", ")">>
          [] n = "(JP)"          -> <<"(", "J", "P", ")">>
          [] n = "(Disc 1)"      -> <<"(", "D", "i", "s", "c", " ", "1", ")">>
          [] n = "(Arcade Mode)" -> <<"(", "A", "r", "c", "a", "d", "e", " ",
                                      "M", "o", "d", "e", ")">>
          [] n = "[!]"           -> <<"[", "!", "]">>]

\* The file name made of a title, its tags each after a blank, and ".chd".
RECURSIVE TagChars(_, _)
TagChars(tags, i) ==
    IF i > Len(tags) THEN <<>>
    ELSE <<" ">> \o TagSpelling[tags[i]] \o TagChars(tags, i + 1)

FileChars(f) ==
    TitleSpelling[f.title] \o TagChars(f.tags, 1) \o <<".", "c", "h", "d">>

\* The variables of the runs of the script.
runVars == <<DRY_RUN, KEEP_HANDHELD_AND_CONSOLE_DUPLICATES, romsExists, tree, quar,
             dupExists, pc, run, games, gi, outcomes, printed, exitStatus, start,
             prevOk, links, unreadable>>

\* No script runs: a title is chosen for the file name.
InitNames ==
    /\ DRY_RUN = TRUE
    /\ KEEP_HANDHELD_AND_CONSOLE_DUPLICATES = TRUE
    /\ romsExists = FALSE
    /\ tree = {} /\ quar = {} /\ dupExists = FALSE
    /\ links = {} /\ unreadable = {}
    /\ pc = "start" /\ run = 1 /\ games = <<>> /\ gi = 1
    /\ outcomes = <<>> /\ printed = <<>> /\ exitStatus = -1
    /\ start = [tree |-> {}, quar |-> {}, dup |-> FALSE]
    /\ prevOk = FALSE
    /\ fname \in {[title |-> n, tags |-> <<>>] : n \in DOMAIN TitleSpelling}
    /\ applied = <<>>

\* The file name gets one more tag.
AddTag ==
    /\ applied = <<>>
    /\ Len(fname.tags) < MaxTags
    /\ \E tg \in DOMAIN TagSpelling : fname' = [fname EXCEPT !.tags = Append(@, tg)]
    /\ UNCHANGED <<runVars, applied>>

\* find_roms's calls on the name of one file: normalize_game_name(file) and
\* get_region_priority(file).
CallOnName ==
    /\ applied = <<>>
    /\ applied' = <<[normalized      |-> normalize_game_name(FileChars(fname)),
                     region_priority |-> get_region_priority(FileChars(fname))]>>
    /\ UNCHANGED <<runVars, fname>>

NextNames == AddTag \/ CallOnName

SpecNames == InitNames /\ [][NextNames]_vars

(***************************************************************************)
(* Properties                                                              *)
(***************************************************************************)
Outcomes == {outcomes[i] : i \in 1..Len(outcomes)}

\* The members of a group that were not passed to move_duplicate.
Kept(o) == {r \in Range(o.roms) : r \notin Range(o.moved)}

InTree(path) == \E f \in tree : PathOf(f) = path

\* The quarantine directory holds, at the same relative path, the file that
\* was in the collection at path.
InQuarantine(path) == \E q \in quar : PathOf(q) = path /\ q.origin = "tree"

C3_KeptNonEmpty ==
    \A o \in Outcomes : \E r \in Range(o.roms) : r \notin Range(o.moved)

\* A group where the MAME/FBNeo rule fired, the generic order then ran over
\* the rest, and the winner of the rule was moved by it.
C3_Witness ==
    \E o \in Outcomes :
        /\ o.rule # <<>>
        /\ o.kept_roms # <<>>
        /\ o.rule[1].winner \in Range(o.moved)
        /\ Kept(o) # {}

\* C4: with DRY_RUN the disk stays as the run found it (the collection, the
\* quarantine directory and whether it exists), every scanned file is still
\* at its path, and the lines printed are exactly one "[DRY RUN] Would move"
\* per call of move_duplicate, in call order.
C4_DryRunFrame ==
    (DRY_RUN /\ romsExists) =>
        /\ tree = start.tree
        /\ quar = start.quar
        /\ dupExists = start.dup
        /\ \A g \in 1..Len(games) : \A r \in Range(games[g].roms) : InTree(r.path)
        /\ LET calls == [i \in 1..Len(outcomes) |-> outcomes[i].moved]
               RECURSIVE Flat(_)
               Flat(k) == IF k > Len(calls) THEN <<>>
                          ELSE [j \in 1..Len(calls[k]) |->
                                   <<"[DRY RUN] Would move", calls[k][j].path>>]
                               \o Flat(k + 1)
           IN  printed = Flat(1)

\* A finished dry run that reported two moves and found no quarantine
\* directory.
C4_Witness ==
    /\ DRY_RUN
    /\ pc = "done"
    /\ Len(printed) = 2
    /\ \E o \in Outcomes : Len(o.moved) = 2
    /\ ~start.dup /\ ~dupExists

\* C5: a run that follows a run which moved files for real and ended with
\* status 0 passes no file to move_duplicate and leaves the disk as it is.
C5_Idempotent ==
    (run >= 2 /\ prevOk) =>
        /\ \A o \in Outcomes : o.moved = <<>>
        /\ tree = start.tree
        /\ quar = start.quar

\* A finished second run that went again through a handheld and console pair
\* kept by the first run, which had moved the MAME loser of an FBNeo ROM.
C5_Witness ==
    /\ run = 2 /\ prevOk /\ pc = "done" /\ exitStatus = 0
    /\ \E o \in Outcomes : Len(o.roms) = 2 /\ Len(o.kept_roms) = 2
    /\ \E q \in quar : q.origin = "tree" /\ q.dir = "mame" /\ q.name # "H.zip"
    /\ \E f \in tree : f.dir = "fbneo"

\* The generation of a system by the table, 0 for a system it does not list.
RefGeneration(system) ==
    LET listed == {p \in SYSTEM_GENERATIONS : p[1] = system}
    IN  IF listed = {} THEN 0 ELSE (CHOOSE p \in listed : TRUE)[2]

\* The four axes, each turned so that higher is better.
RefRank(r) == <<RefGeneration(r.system), r.year, 0 - r.region_priority, 0 - r.size>>

LexGreater(x, y) ==
    \E k \in 1..4 : x[k] > y[k] /\ \A j \in 1..(k - 1) : x[j] = y[j]

\* The lexicographically best member of a pool, the earliest on ties.
LexBest(pool) ==
    pool[CHOOSE i \in 1..Len(pool) :
            /\ \A j \in 1..Len(pool) : ~LexGreater(RefRank(pool[j]), RefRank(pool[i]))
            /\ \A j \in 1..(i - 1) : LexGreater(RefRank(pool[i]), RefRank(pool[j]))]

\* C6: what find_best_rom returned for a pool is the member that is best by
\* generation (higher, 0 when unlisted), then year (higher), then region
\* priority (lower), then size (smaller), the earliest such member on ties.
C6_BestIsLexBest ==
    \A o \in Outcomes :
        /\ Len(o.kept_roms) = Len(o.pools)
        /\ \A i \in 1..Len(o.pools) : o.kept_roms[i] = LexBest(o.pools[i])

\* A pool whose first member was returned although a later member equals it
\* on all four axes.
C6_Witness ==
    \E o \in Outcomes : \E i \in 1..Len(o.pools) :
        /\ o.kept_roms[i] = o.pools[i][1]
        /\ \E j \in 2..Len(o.pools[i]) : RefRank(o.pools[i][j]) = RefRank(o.pools[i][1])

\* C7: a group with a mame member and an fbneo member gets the rule's
\* verdict on the first of each; the mame member is the rule's winner exactly
\* when the fbneo member has region priority 4 and the mame member a lower
\* one, otherwise the fbneo member is; the other one is the loser and is the
\* first ROM passed to move_duplicate.
C7_MameFbneoRule ==
    \A o \in Outcomes :
        LET mames  == SelectSeq(o.roms, LAMBDA r : r.system = "mame")
            fbneos == SelectSeq(o.roms, LAMBDA r : r.system = "fbneo")
        IN  IF mames = <<>> \/ fbneos = <<>> THEN o.rule = <<>>
            ELSE /\ o.rule # <<>>
                 /\ LET m == mames[1]
                        f == fbneos[1]
                        mameKept == (f.region_priority = 4 /\ m.region_priority < 4)
                    IN  /\ o.rule[1].winner = (IF mameKept THEN m ELSE f)
                        /\ o.rule[1].loser = (IF mameKept THEN f ELSE m)
                        /\ o.moved # <<>>
                        /\ o.moved[1] = o.rule[1].loser

\* The rule kept a mame member of region priority below 4 against an fbneo
\* member of region priority 4.
C7_Witness ==
    \E o \in Outcomes :
        /\ o.rule # <<>>
        /\ o.rule[1].winner.system = "mame"
        /\ o.rule[1].winner.region_priority < 4
        /\ o.rule[1].loser.region_priority = 4
        /\ o.moved[1].system = "fbneo"

\* C8: in a group resolved to the end, take the candidates left after the
\* MAME/FBNeo rule.  If some are handhelds, some are not and the flag is set,
\* the members kept are two: the best handheld and the best of the others.
\* Otherwise one member is kept, the best of all the candidates left.
C8_HandheldException ==
    \A o \in Outcomes :
        ~o.raised =>
            LET cands == IF o.rule = <<>> THEN o.roms
                         ELSE SelectSeq(o.roms, LAMBDA r : r # o.rule[1].loser)
                hh == SelectSeq(cands, LAMBDA r : r.system \in HANDHELD_SYSTEMS)
                cc == SelectSeq(cands, LAMBDA r : r.system \notin HANDHELD_SYSTEMS)
            IN  IF hh # <<>> /\ cc # <<>> /\ KEEP_HANDHELD_AND_CONSOLE_DUPLICATES
                THEN /\ Kept(o) = {LexBest(hh), LexBest(cc)}
                     /\ Cardinality(Kept(o)) = 2
                ELSE Kept(o) = {LexBest(cands)}

\* With the flag set, a group of two handhelds and a console kept the console
\* and the better handheld and moved the other handheld.
C8_Witness ==
    \E o \in Outcomes :
        /\ KEEP_HANDHELD_AND_CONSOLE_DUPLICATES
        /\ ~o.raised
        /\ Len(o.roms) = 3
        /\ Len(o.pools) = 2 /\ Len(o.pools[1]) = 2
        /\ Cardinality(Kept(o)) = 2
        /\ Len(o.moved) = 1 /\ o.moved[1].system \in HANDHELD_SYSTEMS

\* C2: every file that was on disk when the run started is still there, at
\* its path in the collection or at the same relative path in the quarantine
\* directory, and the quarantine directory still holds what it held.
C2_NoDataLoss ==
    /\ \A f \in start.tree :
           \/ f \in tree
           \/ [dir |-> f.dir, name |-> f.name, size |-> f.size, origin |-> "tree"] \in quar
    /\ \A q \in start.quar : q \in quar

\* C9: when a call of move_duplicate has raised, the run still goes through
\* every planned move of that group and every other group of two or more, and
\* ends with a status other than 0.
C9_FailureDoesNotStop ==
    (pc = "done" /\ \E o \in Outcomes : o.raised) =>
        /\ \A o \in Outcomes : o.moved = o.plan
        /\ Len(outcomes) = Cardinality({g \in 1..Len(games) : Len(games[g].roms) >= 2})
        /\ exitStatus # 0

\* C10: a run that finds no ROMS_PATH scans nothing, changes nothing and ends
\* with a status other than 0; a run ends with status 0 only if ROMS_PATH
\* exists and no call raised.
C10_MissingRootFails ==
    pc = "done" =>
        /\ ~romsExists => (exitStatus # 0 /\ games = <<>> /\ Disk = start)
        /\ exitStatus = 0 => (romsExists /\ \A o \in Outcomes : ~o.raised)

\* The place of a ROM in a list.
IndexIn(lst, x) == CHOOSE k \in 1..Len(lst) : lst[k] = x

\* C14: the MAME/FBNeo rule names a loser only in a group that holds exactly
\* one mame member and exactly one fbneo member; in any other group its
\* verdict is empty and nothing is moved under it.
C14_RuleNeedsExactlyOne ==
    \A o \in Outcomes :
        o.rule # <<>> =>
            /\ Len(SelectSeq(o.roms, LAMBDA r : r.system = "mame")) = 1
            /\ Len(SelectSeq(o.roms, LAMBDA r : r.system = "fbneo")) = 1

\* C15 as stated: the members of a group passed to move_duplicate are passed
\* in the order they have in the group.
C15_GroupOrder ==
    \A o \in Outcomes :
        \A a, b \in 1..Len(o.moved) :
            a < b => IndexIn(o.roms, o.moved[a]) < IndexIn(o.roms, o.moved[b])

\* C15 as amended: the loser of the MAME/FBNeo rule, when the rule applies,
\* is the first member passed to move_duplicate; the members passed after it
\* are passed in the order they have in the group.
C15_LoserFirstThenGroupOrder ==
    \A o \in Outcomes :
        /\ o.rule # <<>> => (o.moved # <<>> /\ o.moved[1] = o.rule[1].loser)
        /\ \A a, b \in 1..Len(o.moved) :
               (a < b /\ ~(o.rule # <<>> /\ a = 1)) =>
                   IndexIn(o.roms, o.moved[a]) < IndexIn(o.roms, o.moved[b])

\* The loser of the rule was moved before a member that stands before it in
\* the group and was moved by the general rule.
C15_Witness ==
    \E o \in Outcomes :
        /\ o.rule # <<>>
        /\ Len(o.moved) = 2
        /\ o.moved[1] = o.rule[1].loser
        /\ IndexIn(o.roms, o.moved[1]) > IndexIn(o.roms, o.moved[2])

\* The ROMs find_roms has put in its groups.
Scanned == UNION {Range(games[g].roms) : g \in 1..Len(games)}

\* C13: no file whose normalized key is the empty string is placed in a
\* group, and none is passed to move_duplicate.
C13_EmptyKeyExcluded ==
    /\ \A r \in Scanned : NameInfo[r.filename].normalized[2] # <<>>
    /\ \A o \in Outcomes : \A r \in Range(o.moved) :
           NameInfo[r.filename].normalized[2] # <<>>

\* C17: once the scan is over, every file of the walk with a supported
\* extension is in a group unless its own size is unreadable, also when the
\* size of another file is unreadable: the scan goes on past the file.
C17_SizeErrorSkipsFile ==
    (pc # "start" /\ romsExists) =>
        \A f \in walked(start, links) :
            NameInfo[f.name].supported =>
                (PathOf(f) \notin unreadable <=> \E r \in Scanned : r.path = PathOf(f))

\* The characters of the names of the directories of the model.
DirSpelling ==
    [d \in {"MAME", "mame", "fbneo", "psx", "gb"} |->
        CASE d = "MAME"  -> <<"M", "A", "M", "E">>
          [] d = "mame"  -> <<"m", "a", "m", "e">>
          [] d = "fbneo" -> <<"f", "b", "n", "e", "o">>
          [] d = "psx"   -> <<"p", "s", "x">>
          [] d = "gb"    -> <<"g", "b">>]

\* C18: the system of every record is the name of its directory in lower
\* case, so that a group with a member in a directory named mame in any
\* letter case and a member in one named fbneo gets the verdict of the
\* MAME/FBNeo rule.
C18_SystemLowercased ==
    /\ \A r \in Scanned :
           DirSpelling[r.system] = str_lower(DirSpelling[r.path[Len(r.path) - 1]])
    /\ \A o \in Outcomes :
           LET LowDirs == {str_lower(DirSpelling[r.path[Len(r.path) - 1]]) : r \in Range(o.roms)}
           IN  (DirSpelling["mame"] \in LowDirs /\ DirSpelling["fbneo"] \in LowDirs)
                   => o.rule # <<>>

\* C19: no file under the quarantine directory and no file under a directory
\* that is a symbolic link is in a group of find_roms, in any run, and so
\* none is passed to move_duplicate.
C19_QuarantineAndLinksNotScanned ==
    /\ \A r \in Scanned : r.path[1] # "duplicates" /\ r.path[1] \notin links
    /\ \A o \in Outcomes : \A r \in Range(o.moved) :
           r.path[1] # "duplicates" /\ r.path[1] \notin links

\* A second run has scanned the collection and found a group while the
\* quarantine directory holds a file of an earlier run and a file the first
\* run moved, and a directory that is a symbolic link holds a file with the
\* title of a scanned file.
C19_Witness ==
    /\ run = 2 /\ pc = "resolve" /\ games # <<>>
    /\ \E q \in quar : q.origin = "old"
    /\ \E q \in quar : q.origin = "tree"
    /\ \E f \in tree : f.dir \in links /\
           \E r \in Scanned : NameInfo[r.filename].normalized = NameInfo[f.name].normalized

\* The file names of at most MaxTags tags.
Names ==
    {[title |-> n, tags |-> s] :
        n \in DOMAIN TitleSpelling,
        s \in UNION {[1..k -> DOMAIN TagSpelling] : k \in 0..MaxTags}}

\* The tags normalize_game_name is to preserve, the others being dropped.
PreservedTags == {"(Disc 1)", "(Arcade Mode)"}

Markers(f) == SelectSeq(f.tags, LAMBDA tg : tg \in PreservedTags)

\* C11: the key of a file name is the key of every file name with the same
\* title and the same preserved markers in the same order, whatever other
\* tags either has and wherever they stand; it differs from the key of every
\* file name with another title; it has no whitespace at its ends and no two
\* whitespace characters in a row.
C11_NormalizationStable ==
    applied # <<>> =>
        LET key == applied[1].normalized
        IN  /\ key[1]
            /\ \A k \in 1..Len(key[2]) :
                   IsSpace(key[2][k]) =>
                       (k > 1 /\ k < Len(key[2]) /\ ~IsSpace(key[2][k + 1]))
            /\ \A g \in Names :
                   IF g.title = fname.title
                   THEN Markers(g) = Markers(fname) =>
                            normalize_game_name(FileChars(g)) = key
                   ELSE normalize_game_name(FileChars(g)) # key

\* The class of a tag by the claim's lists, letter case apart: 1 for Europe
\* and World, 2 for USA and US, 4 for Japan and JP, 0 for a tag of no region.
RegionClass ==
    [tg \in DOMAIN TagSpelling |->
        CASE tg \in {"(Europe)", "(World)"} -> 1
          [] tg \in {"(USA)", "(us)"}       -> 2
          [] tg \in {"(Japan)", "(JP)"}     -> 4
          [] OTHER                          -> 0]

ClassesOf(f) == {RegionClass[f.tags[i]] : i \in 1..Len(f.tags)}

\* C12: the region priority of a file name is 1 when it has a tag of class
\* 1, else 2 when it has a tag of class 2, else 4 when it has a tag of class
\* 4, else 3.
C12_RegionPriority ==
    applied # <<>> =>
        applied[1].region_priority =
            (IF 1 \in ClassesOf(fname) THEN 1
             ELSE IF 2 \in ClassesOf(fname) THEN 2
             ELSE IF 4 \in ClassesOf(fname) THEN 4
             ELSE 3)

\* A name with a Japan tag before a USA tag in lower case got priority 2.
C12_Witness ==
    /\ applied # <<>>
    /\ fname.tags = <<"(Japan)", "(us)">>
    /\ applied[1].region_priority = 2

\* C16: every preserved marker of a file name stands in its key as it
\* stands in the name, and the key holds no placeholder.
C16_MarkersPreserved ==
    applied # <<>> =>
        LET key == applied[1].normalized
        IN  /\ key[1]
            /\ \A i \in 1..Len(fname.tags) :
                   fname.tags[i] \in PreservedTags => str_in(TagSpelling[fname.tags[i]], key[2])
            /\ ~str_in(PLACEHOLDER, key[2])

====
